---- MODULE Spec2Model ----
(***************************************************************************)
(* Model of app.js, the Hangzhou inundation reporting tool: the report     *)
(* form (draft, option chips, date/time fields, photo, submit gate), the   *)
(* in-memory report store, the floods marker layer and its filter, the    *)
(* layer toggles, and the sequential loader of the six static layers.      *)
(*                                                                         *)
(* Representation.  A JS string is a TLA+ string, except a date string     *)
(* 'YYYY-MM-DD', which is the tuple <<y, m, d>> of its zero-padded fields  *)
(* (the empty string is <<>>) so that the code's string comparison can be  *)
(* computed (StrLess).  A nullable object reference is <<>> (null) or      *)
(* <<object>>.  A nullable string is the string or null.  Coordinates are  *)
(* degrees times 10^4.  A report's description and timestamp, the stats    *)
(* counters, the toast, the instructions panel and the location display    *)
(* are not modelled.                                                       *)
(***************************************************************************)
EXTENDS Integers, Sequences, FiniteSets, TLC

VARIABLES
    layers,            \* layers.<name>: the children of each layer group
    currentMarker,     \* the temporary selection marker, or null
    selectedLocation,  \* last clicked coordinate, or null
    floodReports,      \* the Report Store
    formState,         \* the draft: location, depth, situation
    uploadedPhoto,     \* the held photo (data URI), or null
    depthSelected,     \* .depth-option elements carrying class 'selected'
    situationSelected, \* .situation-chip elements carrying class 'selected'
    eventDate,         \* #eventDate.value
    eventTime,         \* #eventTime.value
    submitDisabled,    \* #submitBtn.disabled
    photoPreview,      \* #photoUpload shows a preview (class 'has-image')
    filterChipActive,  \* .filter-chip elements carrying class 'active'
    filterDateFrom,    \* #filterDateFrom.value
    filterDateTo,      \* #filterDateTo.value
    reportItems,       \* rows of #reportItems, top first (store indices)
    layerItemActive,   \* .layer-item elements carrying class 'active'
    mapLayers,         \* layer groups currently added to the map
    mapMarkers,        \* markers added directly to the map (not in a group)
    photoInput,        \* #photoInput: the file it holds, or ""
    pendingReads,      \* files whose FileReader read has not completed
    chosenFiles,       \* history: the files chosen since the form was last reset
    modeView,          \* the active .mode-btn and the display of form and list
    now,               \* the clock, Date.now()
    net,               \* what the network does with each static file
    loadPc,            \* loadGeoJSONData: index of the loadLayer call awaited
    loadStage          \* loadLayer: awaiting "fetch" or "json"

draftVars  == <<currentMarker, selectedLocation, formState, depthSelected,
                situationSelected, eventDate, eventTime, submitDisabled, mapMarkers>>
photoVars  == <<uploadedPhoto, photoPreview, photoInput, pendingReads, chosenFiles>>
filterVars == <<filterChipActive, filterDateFrom, filterDateTo>>
storeVars  == <<floodReports, reportItems>>
toggleVars == <<layerItemActive, mapLayers>>
loadVars   == <<net, loadPc, loadStage>>
vars == <<layers, draftVars, photoVars, filterVars, storeVars, toggleVars, loadVars,
         modeView, now>>

-----------------------------------------------------------------------------
(* Values *)

null == "null"
NoObject == <<>>
Ref(o) == <<o>>
Deref(r) == r[1]

\* JS truthiness of a nullable string / a string / a nullable reference
TruthyStr(s) == s # null /\ s # ""
TruthyDate(d) == d # <<>>
TruthyRef(r) == r # NoObject

\* JS '<' on two strings given as tuples of equally wide zero-padded fields:
\* lexicographic, a proper prefix (the empty string) being smaller.
RECURSIVE StrLess(_, _)
StrLess(a, b) ==
    IF b = <<>> THEN FALSE
    ELSE IF a = <<>> THEN TRUE
    ELSE IF Head(a) # Head(b) THEN Head(a) < Head(b)
    ELSE StrLess(Tail(a), Tail(b))

LayerNames == {"roads", "water", "parks", "amenities", "metro", "floods", "boundary"}

DepthOptions == {"shallow", "moderate", "deep", "severe"}
SituationOptions == {"home", "commute", "work", "other"}
FilterChips == {"all"} \cup DepthOptions

ClockStart == 100

\* setDefaultDateTime reads the clock; within a session's few milliseconds
\* the calendar date and the HH:MM it yields do not change.
NowDate == <<2025, 6, 16>>
NowTime == "10:00"

demoReports ==
    << [id |-> 1, location |-> [lat |-> 302574, lng |-> 1201583], date |-> <<2025, 6, 15>>,
        time |-> "08:30", depth |-> "moderate", situation |-> "commute", photo |-> null],
       [id |-> 2, location |-> [lat |-> 302456, lng |-> 1201789], date |-> <<2025, 6, 15>>,
        time |-> "09:15", depth |-> "deep", situation |-> "work", photo |-> null],
       [id |-> 3, location |-> [lat |-> 302312, lng |-> 1201456], date |-> <<2025, 6, 14>>,
        time |-> "16:45", depth |-> "shallow", situation |-> "home", photo |-> null],
       [id |-> 4, location |-> [lat |-> 302689, lng |-> 1201234], date |-> <<2025, 6, 14>>,
        time |-> "07:20", depth |-> "severe", situation |-> "commute", photo |-> null],
       [id |-> 5, location |-> [lat |-> 301923, lng |-> 1202134], date |-> <<2025, 6, 13>>,
        time |-> "14:30", depth |-> "moderate", situation |-> "other", photo |-> null] >>

-----------------------------------------------------------------------------
(* Pure helpers of the code *)

\* Mutant of addFloodMarker: latitude and longitude swapped.
addFloodMarkerSwapped(group, report, i) ==
    Append(group, [latlng |-> [lat |-> report.location.lng, lng |-> report.location.lat],
                   icon |-> report.depth, reportData |-> i])

\* A flood marker for the i-th stored report, added to the floods group.
addFloodMarker(group, report, i) ==
    Append(group, [latlng |-> report.location, icon |-> report.depth, reportData |-> i])

\* Mutant of validateForm: the location is not looked at.
validateFormNoLocation(fs, date, time) ==
    ~ (TruthyStr(fs.depth) /\ TruthyStr(fs.situation) /\ TruthyDate(date) /\ TruthyStr(time))

\* Mutant of validateForm: the time field is not looked at.
validateFormNoTime(fs, date, time) ==
    ~ (TruthyRef(fs.location) /\ TruthyStr(fs.depth) /\ TruthyStr(fs.situation)
       /\ TruthyDate(date))

\* The submit button's disabled flag as validateForm sets it.
validateForm(fs, date, time) ==
    ~ (TruthyRef(fs.location) /\ TruthyStr(fs.depth) /\ TruthyStr(fs.situation)
       /\ TruthyDate(date) /\ TruthyStr(time))

\* Mutant of updateReportList: the rows are not reversed.
updateReportListForward(reports) ==
    [k \in 1..Len(reports) |-> k]

\* floodReports.slice().reverse(): one row per report, last report first.
updateReportList(reports) ==
    [k \in 1..Len(reports) |-> Len(reports) + 1 - k]

\* Mutant of showReport: the upper date bound is exclusive.
showReportExclusiveTo(report, depthFilter, dateFrom, dateTo) ==
    /\ ~ (depthFilter # "all" /\ report.depth # depthFilter)
    /\ ~ (TruthyDate(dateFrom) /\ StrLess(report.date, dateFrom))
    /\ ~ (TruthyDate(dateTo) /\ ~ StrLess(report.date, dateTo))

\* Mutant of showReport: the lower date bound is exclusive.
showReportExclusiveFrom(report, depthFilter, dateFrom, dateTo) ==
    /\ ~ (depthFilter # "all" /\ report.depth # depthFilter)
    /\ ~ (TruthyDate(dateFrom) /\ ~ StrLess(dateFrom, report.date))
    /\ ~ (TruthyDate(dateTo) /\ StrLess(dateTo, report.date))

\* The 'show' flag filterReports computes for one report.
showReport(report, depthFilter, dateFrom, dateTo) ==
    /\ ~ (depthFilter # "all" /\ report.depth # depthFilter)
    /\ ~ (TruthyDate(dateFrom) /\ StrLess(report.date, dateFrom))
    /\ ~ (TruthyDate(dateTo) /\ StrLess(dateTo, report.date))

\* The forEach loop of filterReports from report i on, onto the group so far.
RECURSIVE filterFrom(_, _, _, _, _, _)
filterFrom(group, reports, i, depthFilter, dateFrom, dateTo) ==
    IF i > Len(reports) THEN group
    ELSE filterFrom(IF showReport(reports[i], depthFilter, dateFrom, dateTo)
                       THEN addFloodMarker(group, reports[i], i)
                       ELSE group,
                    reports, i + 1, depthFilter, dateFrom, dateTo)

\* Mutant of filterReports: the group is not cleared first.
filterReportsNoClear(reports, depthFilter, dateFrom, dateTo) ==
    filterFrom(layers.floods, reports, 1, depthFilter, dateFrom, dateTo)

\* filterReports: clearLayers(), then the loop over the whole store.
filterReports(reports, depthFilter, dateFrom, dateTo) ==
    filterFrom(<<>>, reports, 1, depthFilter, dateFrom, dateTo)

\* The forEach loop of addDemoData: push each report and add its marker.
RECURSIVE addDemoData(_, _)
addDemoData(group, i) ==
    IF i > Len(demoReports) THEN group
    ELSE addDemoData(addFloodMarker(group, demoReports[i], i), i + 1)

\* map.removeLayer(marker) on the markers held directly by the map.
RECURSIVE removeMarker(_, _)
removeMarker(markers, m) ==
    IF markers = <<>> THEN <<>>
    ELSE IF Head(markers) = m THEN Tail(markers)
    ELSE <<Head(markers)>> \o removeMarker(Tail(markers), m)

-----------------------------------------------------------------------------
(* Initial state: the page as served, after the DOMContentLoaded handler *)

\* What index.html sets before any script runs: the submit button is
\* disabled, the "all" filter chip and every layer item are active, no
\* option is selected, the filter dates are empty, and the "report" mode
\* button is active with the form shown and the list hidden.
InitialMarkup ==
    [ submitDisabled |-> TRUE,
      modeView |-> [active |-> {"report"}, reportForm |-> "block", reportList |-> "none"],
      filterChipActive |-> {"all"},
      filterDateFrom |-> <<>>,
      filterDateTo |-> <<>>,
      layerItemActive |-> LayerNames,
      depthSelected |-> {},
      situationSelected |-> {} ]

\* The six loadLayer calls of loadGeoJSONData, in the order they are awaited.
LoadList ==
    << [url |-> "HZ_Center.geojson", name |-> "boundary"],
       [url |-> "roads_simplified.geojson", name |-> "roads"],
       [url |-> "water.geojson", name |-> "water"],
       [url |-> "park.geojson", name |-> "parks"],
       [url |-> "amenity.geojson", name |-> "amenities"],
       [url |-> "metrostation.geojson", name |-> "metro"] >>

StaticLayers == {LoadList[i].name : i \in 1..Len(LoadList)}

\* What can become of one fetch: a parsable 2xx response, a rejected fetch,
\* a non-2xx status, a 2xx response whose body does not parse, or no answer.
Outcomes == {"ok", "neterr", "http", "badjson", "stall"}

InitWith(nets) ==
    /\ layers = [n \in LayerNames |-> IF n = "floods" THEN addDemoData(<<>>, 1) ELSE <<>>]
    /\ mapLayers = LayerNames
    /\ mapMarkers = <<>>
    /\ currentMarker = NoObject
    /\ selectedLocation = NoObject
    /\ floodReports = demoReports
    /\ reportItems = updateReportList(demoReports)
    /\ formState = [location |-> NoObject, depth |-> null, situation |-> null]
    /\ uploadedPhoto = null
    /\ photoPreview = null
    /\ photoInput = ""
    /\ pendingReads = {}
    /\ chosenFiles = {}
    /\ modeView = InitialMarkup.modeView
    /\ depthSelected = InitialMarkup.depthSelected
    /\ situationSelected = InitialMarkup.situationSelected
    /\ eventDate = NowDate
    /\ eventTime = NowTime
    /\ submitDisabled = InitialMarkup.submitDisabled
    /\ filterChipActive = InitialMarkup.filterChipActive
    /\ filterDateFrom = InitialMarkup.filterDateFrom
    /\ filterDateTo = InitialMarkup.filterDateTo
    /\ layerItemActive = InitialMarkup.layerItemActive
    /\ now = ClockStart
    /\ net \in nets
    /\ loadPc = 1
    /\ loadStage = "fetch"

Init == InitWith([StaticLayers -> {"ok"}])

-----------------------------------------------------------------------------
(* The form *)

\* Mutant of removeExisting: the previous marker stays on the map.
keepExisting(markers, cur) == markers

\* 'if (currentMarker) map.removeLayer(currentMarker)'
removeExisting(markers, cur) ==
    IF TruthyRef(cur) THEN removeMarker(markers, Deref(cur)) ELSE markers

handleMapClick(latlng) ==
    LET marker == [latlng |-> latlng, icon |-> "temp"] IN
    /\ mapMarkers' = Append(removeExisting(mapMarkers, currentMarker), marker)
    /\ currentMarker' = Ref(marker)
    /\ selectedLocation' = Ref(latlng)
    /\ formState' = [formState EXCEPT !.location = Ref(latlng)]
    /\ submitDisabled' = validateForm(formState', eventDate, eventTime)
    /\ UNCHANGED <<depthSelected, situationSelected, eventDate, eventTime>>
    /\ UNCHANGED <<layers, photoVars, filterVars, storeVars, toggleVars, loadVars, modeView, now>>

\* Mutant of selectOnly: the other options keep their class.
selectAlso(selected, group, option) == selected \cup {option}

\* forEach(o => o.classList.remove('selected')); this.classList.add('selected')
selectOnly(selected, group, option) == (selected \ group) \cup {option}

handleDepthSelect(option) ==
    /\ depthSelected' = selectOnly(depthSelected, DepthOptions, option)
    /\ formState' = [formState EXCEPT !.depth = option]
    /\ submitDisabled' = validateForm(formState', eventDate, eventTime)
    /\ UNCHANGED <<currentMarker, selectedLocation, situationSelected, eventDate,
                   eventTime, mapMarkers>>
    /\ UNCHANGED <<layers, photoVars, filterVars, storeVars, toggleVars, loadVars, modeView, now>>

handleSituationSelect(option) ==
    /\ situationSelected' = selectOnly(situationSelected, SituationOptions, option)
    /\ formState' = [formState EXCEPT !.situation = option]
    /\ submitDisabled' = validateForm(formState', eventDate, eventTime)
    /\ UNCHANGED <<currentMarker, selectedLocation, depthSelected, eventDate,
                   eventTime, mapMarkers>>
    /\ UNCHANGED <<layers, photoVars, filterVars, storeVars, toggleVars, loadVars, modeView, now>>

\* The user edits #eventDate; its 'change' listener is validateForm.
eventDateChange(value) ==
    /\ eventDate' = value
    /\ submitDisabled' = validateForm(formState, eventDate', eventTime)
    /\ UNCHANGED <<currentMarker, selectedLocation, formState, depthSelected,
                   situationSelected, eventTime, mapMarkers>>
    /\ UNCHANGED <<layers, photoVars, filterVars, storeVars, toggleVars, loadVars, modeView, now>>

\* The user edits #eventTime; its 'change' listener is validateForm.
eventTimeChange(value) ==
    /\ eventTime' = value
    /\ submitDisabled' = validateForm(formState, eventDate, eventTime')
    /\ UNCHANGED <<currentMarker, selectedLocation, formState, depthSelected,
                   situationSelected, eventDate, mapMarkers>>
    /\ UNCHANGED <<layers, photoVars, filterVars, storeVars, toggleVars, loadVars, modeView, now>>

\* reader.readAsDataURL(file): the data URI of a file's bytes.
readAsDataURL(file) == "data:image;base64," \o file

\* A file is chosen: a FileReader starts reading it.
handlePhotoUpload(file) ==
    /\ photoInput' = file
    /\ chosenFiles' = chosenFiles \cup {file}
    /\ pendingReads' = pendingReads \cup {file}
    /\ UNCHANGED <<uploadedPhoto, photoPreview>>
    /\ UNCHANGED <<layers, draftVars, filterVars, storeVars, toggleVars, loadVars, modeView, now>>

\* reader.onload of one pending read.
readerOnload(file) ==
    /\ file \in pendingReads
    /\ pendingReads' = pendingReads \ {file}
    /\ uploadedPhoto' = readAsDataURL(file)
    /\ photoPreview' = uploadedPhoto'
    /\ UNCHANGED <<photoInput, chosenFiles>>
    /\ UNCHANGED <<layers, draftVars, filterVars, storeVars, toggleVars, loadVars, modeView, now>>

\* Mutant of resetForm: the held photo is not cleared.
resetFormKeepsPhoto ==
    /\ mapMarkers' = removeExisting(mapMarkers, currentMarker)
    /\ currentMarker' = NoObject
    /\ selectedLocation' = NoObject
    /\ formState' = [location |-> NoObject, depth |-> null, situation |-> null]
    /\ depthSelected' = depthSelected \ DepthOptions
    /\ situationSelected' = situationSelected \ SituationOptions
    /\ photoPreview' = null
    /\ uploadedPhoto' = uploadedPhoto
    /\ photoInput' = ""
    /\ chosenFiles' = {}
    /\ submitDisabled' = TRUE
    /\ eventDate' = NowDate
    /\ eventTime' = NowTime

\* The part of the state resetForm writes.
resetForm ==
    /\ mapMarkers' = removeExisting(mapMarkers, currentMarker)
    /\ currentMarker' = NoObject
    /\ selectedLocation' = NoObject
    /\ formState' = [location |-> NoObject, depth |-> null, situation |-> null]
    /\ depthSelected' = depthSelected \ DepthOptions
    /\ situationSelected' = situationSelected \ SituationOptions
    /\ photoPreview' = null
    /\ uploadedPhoto' = null
    /\ photoInput' = ""
    /\ chosenFiles' = {}
    /\ submitDisabled' = TRUE
    /\ eventDate' = NowDate
    /\ eventTime' = NowTime

\* The report object handleFormSubmit builds from the draft and the fields.
newReport ==
    [ id |-> now,
      location |-> [lat |-> Deref(formState.location).lat,
                    lng |-> Deref(formState.location).lng],
      date |-> eventDate,
      time |-> eventTime,
      depth |-> formState.depth,
      situation |-> formState.situation,
      photo |-> uploadedPhoto ]

\* Mutant of pushReport: the report is put first (unshift).
unshiftReport(reports, report) == <<report>> \o reports

\* floodReports.push(report)
pushReport(reports, report) == Append(reports, report)

\* The form's submit event; a disabled submit button blocks it.
handleFormSubmit ==
    /\ ~ submitDisabled
    /\ floodReports' = pushReport(floodReports, newReport)
    /\ layers' = [layers EXCEPT !.floods = addFloodMarker(@, newReport, Len(floodReports'))]
    /\ resetForm
    /\ reportItems' = updateReportList(floodReports')
    /\ UNCHANGED pendingReads
    /\ UNCHANGED <<filterVars, toggleVars, loadVars, modeView, now>>

\* The clock reaches its next millisecond.
Tick ==
    /\ now' = now + 1
    /\ UNCHANGED <<layers, draftVars, photoVars, filterVars, storeVars, toggleVars,
                   loadVars, modeView>>

-----------------------------------------------------------------------------
(* Mode buttons, layer toggles and the filter *)

ModeButtons == {"report", "list"}

\* Mutant of handleModeToggle: switching the mode also empties the draft.
handleModeToggleResets(mode) ==
    /\ modeView' = [active |-> selectOnly(modeView.active, ModeButtons, mode),
                    reportForm |-> IF mode = "report" THEN "block" ELSE "none",
                    reportList |-> IF mode = "report" THEN "none" ELSE "block"]
    /\ formState' = [location |-> NoObject, depth |-> null, situation |-> null]
    /\ UNCHANGED <<currentMarker, selectedLocation, depthSelected, situationSelected,
                   eventDate, eventTime, submitDisabled, mapMarkers>>
    /\ UNCHANGED <<layers, photoVars, filterVars, storeVars, toggleVars, loadVars, now>>

handleModeToggle(mode) ==
    /\ modeView' = [active |-> selectOnly(modeView.active, ModeButtons, mode),
                    reportForm |-> IF mode = "report" THEN "block" ELSE "none",
                    reportList |-> IF mode = "report" THEN "none" ELSE "block"]
    /\ UNCHANGED <<layers, draftVars, photoVars, filterVars, storeVars, toggleVars,
                   loadVars, now>>

\* classList.toggle('active')
toggleClass(set, e) == IF e \in set THEN set \ {e} ELSE set \cup {e}

\* Mutant of handleLayerToggle: hiding a layer also empties its group.
handleLayerToggleClears(layerName) ==
    /\ layerItemActive' = toggleClass(layerItemActive, layerName)
    /\ mapLayers' = IF layerName \in layerItemActive'
                       THEN mapLayers \cup {layerName}
                       ELSE mapLayers \ {layerName}
    /\ layers' = IF layerName \in layerItemActive'
                    THEN layers
                    ELSE [layers EXCEPT ![layerName] = <<>>]
    /\ UNCHANGED <<draftVars, photoVars, filterVars, storeVars, loadVars, modeView, now>>

handleLayerToggle(layerName) ==
    /\ layerItemActive' = toggleClass(layerItemActive, layerName)
    /\ mapLayers' = IF layerName \in layerItemActive'
                       THEN mapLayers \cup {layerName}
                       ELSE mapLayers \ {layerName}
    /\ UNCHANGED <<layers, draftVars, photoVars, filterVars, storeVars, loadVars, modeView, now>>

\* Mutant of activeDepthFilter: the chip is not looked at.
activeDepthFilterAll(active) == "all"

\* document.querySelector('.filter-chip.active').dataset.depth
activeDepthFilter(active) == CHOOSE c \in active : TRUE

\* Mutant of handleFilterChipClick: the list is re-rendered from the markers shown.
handleFilterChipClickRelist(chip) ==
    /\ filterChipActive' = selectOnly(filterChipActive, FilterChips, chip)
    /\ layers' = [layers EXCEPT !.floods =
                    filterReports(floodReports, activeDepthFilter(filterChipActive'),
                                  filterDateFrom, filterDateTo)]
    /\ reportItems' = [k \in 1..Len(layers'.floods) |->
                          layers'.floods[Len(layers'.floods) + 1 - k].reportData]
    /\ UNCHANGED <<filterDateFrom, filterDateTo, floodReports>>
    /\ UNCHANGED <<draftVars, photoVars, toggleVars, loadVars, modeView, now>>

handleFilterChipClick(chip) ==
    /\ filterChipActive' = selectOnly(filterChipActive, FilterChips, chip)
    /\ UNCHANGED <<filterDateFrom, filterDateTo>>
    /\ UNCHANGED <<draftVars, photoVars, storeVars, toggleVars, loadVars, modeView, now>>
    /\ layers' = [layers EXCEPT !.floods =
                    filterReports(floodReports, activeDepthFilter(filterChipActive'),
                                  filterDateFrom, filterDateTo)]

\* The user edits #filterDateFrom; its 'change' listener is filterReports.
filterDateFromChange(value) ==
    /\ filterDateFrom' = value
    /\ UNCHANGED <<filterChipActive, filterDateTo>>
    /\ UNCHANGED <<draftVars, photoVars, storeVars, toggleVars, loadVars, modeView, now>>
    /\ layers' = [layers EXCEPT !.floods =
                    filterReports(floodReports, activeDepthFilter(filterChipActive),
                                  filterDateFrom', filterDateTo)]

\* The user edits #filterDateTo; its 'change' listener is filterReports.
filterDateToChange(value) ==
    /\ filterDateTo' = value
    /\ UNCHANGED <<filterChipActive, filterDateFrom>>
    /\ UNCHANGED <<draftVars, photoVars, storeVars, toggleVars, loadVars, modeView, now>>
    /\ layers' = [layers EXCEPT !.floods =
                    filterReports(floodReports, activeDepthFilter(filterChipActive),
                                  filterDateFrom, filterDateTo')]

-----------------------------------------------------------------------------
(* The static layer loader *)

\* Mutant of afterCatch: no try/catch, the error ends loadGeoJSONData.
abortLoad(pc) == Len(LoadList) + 1

\* Where loadGeoJSONData continues once a loadLayer call has caught an error:
\* the catch block logs, loadLayer returns, the next call is awaited.
afterCatch(pc) == pc + 1

\* The awaited fetch of the current loadLayer call settles.
fetchSettled ==
    /\ loadPc <= Len(LoadList)
    /\ loadStage = "fetch"
    /\ LET outcome == net[LoadList[loadPc].name] IN
       /\ outcome # "stall"
       /\ IF outcome \in {"ok", "badjson"}
             THEN loadPc' = loadPc /\ loadStage' = "json"
             ELSE loadPc' = afterCatch(loadPc) /\ loadStage' = "fetch"
    /\ UNCHANGED <<layers, net>>
    /\ UNCHANGED <<draftVars, photoVars, filterVars, storeVars, toggleVars, modeView, now>>

\* Mutant of jsonSettled: the parsed data is rendered onto the roads group.
jsonSettledOntoRoads ==
    /\ loadPc <= Len(LoadList)
    /\ loadStage = "json"
    /\ LET item == LoadList[loadPc] IN
       IF net[item.name] = "ok"
          THEN /\ layers' = [layers EXCEPT !["roads"] = Append(@, [geoJSON |-> item.url])]
               /\ loadPc' = loadPc + 1
          ELSE /\ layers' = layers
               /\ loadPc' = afterCatch(loadPc)
    /\ loadStage' = "fetch"
    /\ UNCHANGED net
    /\ UNCHANGED <<draftVars, photoVars, filterVars, storeVars, toggleVars, modeView, now>>

\* The awaited res.json() settles: the parsed data is rendered onto the
\* target group, or the parse error is caught.
jsonSettled ==
    /\ loadPc <= Len(LoadList)
    /\ loadStage = "json"
    /\ LET item == LoadList[loadPc] IN
       IF net[item.name] = "ok"
          THEN /\ layers' = [layers EXCEPT ![item.name] = Append(@, [geoJSON |-> item.url])]
               /\ loadPc' = loadPc + 1
          ELSE /\ layers' = layers
               /\ loadPc' = afterCatch(loadPc)
    /\ loadStage' = "fetch"
    /\ UNCHANGED net
    /\ UNCHANGED <<draftVars, photoVars, filterVars, storeVars, toggleVars, modeView, now>>

-----------------------------------------------------------------------------
(* Specifications *)

\* The number of reports a run submits on top of the demo reports.
MaxSubmits == 1

SubmitsLeft(cap) == Len(floodReports) < Len(demoReports) + cap

\* Spec: every user action, each over a small set of inputs.
Points == {[lat |-> 302500, lng |-> 1201500]}
Depths == {"severe"}
Situations == {"home"}
EditedDates == {<<>>, <<2025, 6, 14>>}
EditedTimes == {"", NowTime}
ChosenFiles == {"A.jpg"}
ClickedChips == {"all", "severe"}
FilterFroms == {<<>>, <<2025, 6, 15>>}
FilterTos == {<<>>, <<2025, 6, 15>>}
ToggledLayers == {"floods"}

Next ==
    \/ \E p \in Points : handleMapClick(p)
    \/ \E d \in Depths : handleDepthSelect(d)
    \/ \E s \in Situations : handleSituationSelect(s)
    \/ \E v \in EditedDates : eventDateChange(v)
    \/ \E v \in EditedTimes : eventTimeChange(v)
    \/ \E f \in ChosenFiles : handlePhotoUpload(f)
    \/ \E f \in ChosenFiles : readerOnload(f)
    \/ SubmitsLeft(MaxSubmits) /\ handleFormSubmit
    \/ \E n \in ToggledLayers : handleLayerToggle(n)
    \/ \E c \in ClickedChips : handleFilterChipClick(c)
    \/ \E v \in FilterFroms : filterDateFromChange(v)
    \/ \E v \in FilterTos : filterDateToChange(v)

Spec == Init /\ [][Next]_vars

\* DraftSpec: the form alone, with two inputs of every kind.
DraftPoints == Points \cup {[lat |-> 302600, lng |-> 1201600]}
DraftDepths == {"shallow", "severe"}
DraftSituations == {"home", "other"}
DraftTimes == {"", "07:45"}

DraftNext ==
    \/ \E p \in DraftPoints : handleMapClick(p)
    \/ \E d \in DraftDepths : handleDepthSelect(d)
    \/ \E s \in DraftSituations : handleSituationSelect(s)
    \/ \E v \in EditedDates : eventDateChange(v)
    \/ \E v \in DraftTimes : eventTimeChange(v)
    \/ SubmitsLeft(MaxSubmits) /\ handleFormSubmit

DraftSpec == Init /\ [][DraftNext]_vars

\* FilterSpec: submits of reports of two depths and two dates, under every
\* filter chip and every pair of filter dates among the stored dates.
FilterEventDates == {<<2025, 6, 14>>}
FilterDates == {<<>>, <<2025, 6, 14>>, <<2025, 6, 15>>}

FilterNext ==
    \/ \E p \in Points : handleMapClick(p)
    \/ \E d \in DraftDepths : handleDepthSelect(d)
    \/ \E s \in Situations : handleSituationSelect(s)
    \/ \E v \in FilterEventDates : eventDateChange(v)
    \/ SubmitsLeft(MaxSubmits) /\ handleFormSubmit
    \/ \E c \in FilterChips : handleFilterChipClick(c)
    \/ \E v \in FilterDates : filterDateFromChange(v)
    \/ \E v \in FilterDates : filterDateToChange(v)

FilterSpec == Init /\ [][FilterNext]_vars

\* ClockSpec: submits in quick succession, the clock advancing or not
\* between them.
MaxBurst == 2
MaxTicks == 1

ClockNext ==
    \/ \E p \in Points : handleMapClick(p)
    \/ \E d \in DraftDepths : handleDepthSelect(d)
    \/ \E s \in Situations : handleSituationSelect(s)
    \/ SubmitsLeft(MaxBurst) /\ handleFormSubmit
    \/ now < ClockStart + MaxTicks /\ Tick

ClockSpec == Init /\ [][ClockNext]_vars

\* ToggleSpec: layer toggles interleaved with everything that writes a layer
\* group: the loader, a submit and a filter re-render.
SwitchedLayers == {"floods", "metro"}

ToggleNext ==
    \/ \E n \in SwitchedLayers : handleLayerToggle(n)
    \/ fetchSettled
    \/ jsonSettled
    \/ \E p \in Points : handleMapClick(p)
    \/ \E d \in Depths : handleDepthSelect(d)
    \/ \E s \in Situations : handleSituationSelect(s)
    \/ SubmitsLeft(MaxSubmits) /\ handleFormSubmit
    \/ \E c \in ClickedChips : handleFilterChipClick(c)

ToggleSpec == Init /\ [][ToggleNext]_vars

\* PhotoSpec: two photo files whose reads complete in any order, before or
\* after the submits of successive drafts.
PhotoFiles == {"A.jpg", "B.jpg"}

PhotoNext ==
    \/ \E p \in Points : handleMapClick(p)
    \/ \E d \in Depths : handleDepthSelect(d)
    \/ \E s \in Situations : handleSituationSelect(s)
    \/ \E f \in PhotoFiles : handlePhotoUpload(f)
    \/ \E f \in PhotoFiles : readerOnload(f)
    \/ SubmitsLeft(MaxBurst) /\ handleFormSubmit

PhotoSpec == Init /\ [][PhotoNext]_vars

\* FrameSpec: every operation of the page, each with one input, next to the
\* loader.
ClearedDates == {<<>>}
ClearedTimes == {""}
FrameChips == {"severe"}
FrameDates == {<<2025, 6, 15>>}

FrameNext ==
    \/ \E p \in Points : handleMapClick(p)
    \/ \E d \in Depths : handleDepthSelect(d)
    \/ \E s \in Situations : handleSituationSelect(s)
    \/ \E v \in ClearedDates : eventDateChange(v)
    \/ \E v \in ClearedTimes : eventTimeChange(v)
    \/ \E f \in ChosenFiles : handlePhotoUpload(f)
    \/ \E f \in ChosenFiles : readerOnload(f)
    \/ SubmitsLeft(MaxSubmits) /\ handleFormSubmit
    \/ \E c \in FrameChips : handleFilterChipClick(c)
    \/ \E v \in FrameDates : filterDateFromChange(v)
    \/ \E n \in ToggledLayers : handleLayerToggle(n)
    \/ \E m \in ModeButtons : handleModeToggle(m)
    \/ fetchSettled
    \/ jsonSettled

FrameSpec == Init /\ [][FrameNext]_vars

\* SessionSpec: the loader, with a bounded number of files the network does
\* not deliver as parsable data, next to a draft, a submit and a filter chip.
MaxUndelivered == 1

SessionNets ==
    {n \in [StaticLayers -> Outcomes] :
        Cardinality({l \in StaticLayers : n[l] # "ok"}) <= MaxUndelivered}

SessionInit == InitWith(SessionNets)

SessionNext ==
    \/ fetchSettled
    \/ jsonSettled
    \/ \E p \in Points : handleMapClick(p)
    \/ \E d \in Depths : handleDepthSelect(d)
    \/ \E s \in Situations : handleSituationSelect(s)
    \/ SubmitsLeft(MaxSubmits) /\ handleFormSubmit
    \/ \E c \in ClickedChips : handleFilterChipClick(c)

SessionSpec == SessionInit /\ [][SessionNext]_vars

LoadInit == InitWith([StaticLayers -> Outcomes])

LoadNext == fetchSettled \/ jsonSettled

\* The event loop runs the continuation of every settled promise.
LoadSpec == LoadInit /\ [][LoadNext]_vars /\ WF_vars(LoadNext)

-----------------------------------------------------------------------------
(* Properties *)

DraftComplete ==
    /\ formState.location # NoObject
    /\ formState.depth # null
    /\ formState.situation # null
    /\ eventDate # <<>>
    /\ eventTime # ""

\* C1: in every reachable state the submit control is enabled if and only if
\* the draft's location, depth and situation and the date and time fields are
\* all set.
C1_SubmitGate == (~ submitDisabled) <=> DraftComplete

C1_Witness ==
    /\ ~ submitDisabled
    /\ DraftComplete
    /\ filterChipActive # {"all"}
    /\ "floods" \notin mapLayers

IsPrefix(s, t) == Len(s) <= Len(t) /\ SubSeq(t, 1, Len(s)) = s

Last(s) == s[Len(s)]

\* C2: every submit taken while the gate is enabled appends exactly one report
\* to the store, carrying the draft's location, depth, situation, date and
\* time, and adds exactly one marker to the floods layer, at the submitted
\* coordinate, whatever the active filter criteria.
C2_SubmitAppends ==
    [][handleFormSubmit =>
        /\ Len(floodReports') = Len(floodReports) + 1
        /\ IsPrefix(floodReports, floodReports')
        /\ Last(floodReports').location = Deref(formState.location)
        /\ Last(floodReports').depth = formState.depth
        /\ Last(floodReports').situation = formState.situation
        /\ Last(floodReports').date = eventDate
        /\ Last(floodReports').time = eventTime
        /\ Len(layers'.floods) = Len(layers.floods) + 1
        /\ IsPrefix(layers.floods, layers'.floods)
        /\ Last(layers'.floods).latlng = Deref(formState.location)
        /\ Last(layers'.floods).reportData = Len(floodReports')
      ]_vars

\* A report was submitted while the active chip was not its depth, and its
\* marker is the last one of the floods layer.
C2_Witness ==
    /\ Len(floodReports) = Len(demoReports) + 1
    /\ filterChipActive = {"deep"}
    /\ filterDateFrom = <<2025, 6, 15>>
    /\ Last(floodReports).depth = "shallow"
    /\ layers.floods # <<>>
    /\ Last(layers.floods).reportData = Len(floodReports)
    /\ Last(layers.floods).latlng = Last(floodReports).location

\* C3: across every step the previous store is a prefix of the new store: no
\* stored report is removed, reordered or changed.
C3_StoreAppendOnly == [][IsPrefix(floodReports, floodReports')]_vars

C3_Witness ==
    /\ Len(floodReports) > Len(demoReports)
    /\ IsPrefix(demoReports, floodReports)
    /\ filterChipActive = {"severe"}
    /\ Len(layers.floods) < Len(floodReports)

\* A filter operation: a filter-chip click or a change of a filter date.
FilterOp ==
    \/ \E c \in FilterChips : handleFilterChipClick(c)
    \/ \E v \in FilterDates : filterDateFromChange(v)
    \/ \E v \in FilterDates : filterDateToChange(v)

\* A date as a number that grows with the calendar.
DateNum(d) == d[1] * 10000 + d[2] * 100 + d[3]

\* The filter criteria as the claim states them.
Matches(r, depth, dateFrom, dateTo) ==
    /\ depth = "all" \/ r.depth = depth
    /\ dateFrom = <<>> \/ DateNum(r.date) >= DateNum(dateFrom)
    /\ dateTo = <<>> \/ DateNum(r.date) <= DateNum(dateTo)

Range(s) == {s[k] : k \in 1..Len(s)}

\* The floods layer holds one marker for each report of `shown`, and no other.
MarkersExactly(group, reports, shown) ==
    /\ {m.reportData : m \in Range(group)} = shown
    /\ Len(group) = Cardinality(shown)
    /\ \A m \in Range(group) : m.latlng = reports[m.reportData].location

\* C4: immediately after a filter operation the floods layer holds a marker
\* for exactly the stored reports matching the depth chip and the inclusive
\* date bounds (all of them when the chip is "all" and both bounds are empty).
C4_FilterExact ==
    [][FilterOp =>
        /\ \E c \in FilterChips :
             /\ filterChipActive' = {c}
             /\ MarkersExactly(layers'.floods, floodReports',
                    {i \in 1..Len(floodReports') :
                        Matches(floodReports'[i], c, filterDateFrom', filterDateTo')})
        /\ (filterChipActive' = {"all"} /\ filterDateFrom' = <<>> /\ filterDateTo' = <<>>)
              => MarkersExactly(layers'.floods, floodReports', 1..Len(floodReports'))
      ]_vars

\* All three criteria are set, a submitted report is stored, and the layer
\* shows exactly the two reports of 2025-06-14 that are severe.
C4_Witness ==
    /\ filterChipActive = {"severe"}
    /\ filterDateFrom = <<2025, 6, 14>>
    /\ filterDateTo = <<2025, 6, 14>>
    /\ Len(floodReports) = Len(demoReports) + 1
    /\ {m.reportData : m \in Range(layers.floods)} = {4, Len(floodReports)}
    /\ Len(layers.floods) = 2

\* C5: a filter operation leaves the store, the rendered list, the draft, the
\* temporary marker, the submit control and every other layer unchanged.
C5_FilterFrame ==
    [][FilterOp =>
        /\ UNCHANGED <<floodReports, reportItems, formState, selectedLocation>>
        /\ UNCHANGED <<depthSelected, situationSelected, eventDate, eventTime>>
        /\ UNCHANGED <<currentMarker, mapMarkers, submitDisabled>>
        /\ UNCHANGED <<uploadedPhoto, photoPreview>>
        /\ \A n \in LayerNames \ {"floods"} : layers'[n] = layers[n]
      ]_vars

\* A filter hides reports while a draft with its temporary marker is open and
\* the list still has a row for every report.
C5_Witness ==
    /\ filterChipActive = {"severe"}
    /\ filterDateFrom = <<2025, 6, 15>>
    /\ layers.floods = <<>>
    /\ Len(reportItems) = Len(floodReports)
    /\ Len(floodReports) > Len(demoReports)
    /\ currentMarker # NoObject
    /\ ~ submitDisabled

\* C6: in the state right after a submit there is no temporary marker, the
\* draft is empty, no option is selected, no photo is held, date and time are
\* the default, and the submit control is disabled.
C6_SubmitResets ==
    [][handleFormSubmit =>
        /\ mapMarkers' = <<>>
        /\ currentMarker' = NoObject
        /\ formState'.location = NoObject
        /\ formState'.depth = null
        /\ formState'.situation = null
        /\ depthSelected' = {}
        /\ situationSelected' = {}
        /\ uploadedPhoto' = null
        /\ photoPreview' = null
        /\ eventDate' = NowDate
        /\ eventTime' = NowTime
        /\ submitDisabled'
      ]_vars

\* A report with a photo and an edited date was submitted and the form is
\* back to its defaults.
C6_Witness ==
    /\ Len(floodReports) = Len(demoReports) + 1
    /\ Last(floodReports).photo # null
    /\ Last(floodReports).date # NowDate
    /\ mapMarkers = <<>>
    /\ currentMarker = NoObject
    /\ formState = [location |-> NoObject, depth |-> null, situation |-> null]
    /\ depthSelected = {}
    /\ uploadedPhoto = null
    /\ eventDate = NowDate
    /\ submitDisabled

SelectionOf(value) == IF value = null THEN {} ELSE {value}

\* C7: at most one depth option and at most one situation option is selected,
\* each being the draft's value; selecting an option in one group leaves the
\* other group's selection unchanged.
C7_SingleSelect ==
    /\ [](/\ Cardinality(depthSelected) <= 1
          /\ Cardinality(situationSelected) <= 1
          /\ depthSelected = SelectionOf(formState.depth)
          /\ situationSelected = SelectionOf(formState.situation))
    /\ [][/\ (\E d \in DepthOptions : handleDepthSelect(d))
                => (UNCHANGED situationSelected /\ Cardinality(depthSelected') = 1)
          /\ (\E c \in SituationOptions : handleSituationSelect(c))
                => (UNCHANGED depthSelected /\ Cardinality(situationSelected') = 1)
         ]_vars

\* Both groups hold a selection, after an earlier report with other options.
C7_Witness ==
    /\ depthSelected = {"severe"}
    /\ situationSelected = {"other"}
    /\ Len(floodReports) > Len(demoReports)
    /\ Last(floodReports).depth = "shallow"
    /\ Last(floodReports).situation = "home"

\* C10: at most one temporary marker is on the map; it is the current marker
\* and stands at the draft's location.
C10_OneTempMarker ==
    /\ Len(mapMarkers) <= 1
    /\ currentMarker = NoObject => mapMarkers = <<>> /\ formState.location = NoObject
    /\ currentMarker # NoObject =>
          /\ mapMarkers = <<Deref(currentMarker)>>
          /\ formState.location # NoObject
          /\ Deref(currentMarker).latlng = Deref(formState.location)

\* A marker at the second point, clicked after a report was submitted at the
\* first.
C10_Witness ==
    /\ Len(floodReports) > Len(demoReports)
    /\ Last(floodReports).location = [lat |-> 302500, lng |-> 1201500]
    /\ Len(mapMarkers) = 1
    /\ mapMarkers[1].latlng = [lat |-> 302600, lng |-> 1201600]

Failed(outcome) == outcome \in {"neterr", "http", "badjson"}

ExactlyOneFails ==
    \E l \in StaticLayers :
        Failed(net[l]) /\ \A k \in StaticLayers \ {l} : net[k] = "ok"

ExactlyOneStalls ==
    \E l \in StaticLayers :
        net[l] = "stall" /\ \A k \in StaticLayers \ {l} : net[k] = "ok"

UrlOf(l) == LoadList[CHOOSE i \in 1..Len(LoadList) : LoadList[i].name = l].url

\* The layer group holds its own file's features, once, and nothing else.
Rendered(l) == layers[l] = <<[geoJSON |-> UrlOf(l)]>>

LoadDone == loadPc = Len(LoadList) + 1

\* C8: when exactly one of the six fetches fails (network error, non-success
\* status or unparsable body), that layer stays empty, and the loading
\* sequence runs to its end with each of the other five layers rendered onto
\* its own group.
C8_OneFailureIsolated ==
    /\ [](ExactlyOneFails => \A l \in StaticLayers : Failed(net[l]) => layers[l] = <<>>)
    /\ ExactlyOneFails ~>
          (LoadDone /\ \A l \in StaticLayers : net[l] = "ok" => Rendered(l))

\* The water file does not parse; the loader has finished and the five other
\* layers are rendered.
C8_Witness ==
    /\ net["water"] = "badjson"
    /\ ExactlyOneFails
    /\ LoadDone
    /\ layers["water"] = <<>>
    /\ \A l \in StaticLayers \ {"water"} : Rendered(l)

\* C9: when one fetch stalls forever, its own layer stays empty and every
\* other static layer, whose file the network would deliver, is eventually
\* rendered, wherever the stalled layer stands in the load list.
C9_StallIsolated ==
    ExactlyOneStalls ~> (\A l \in StaticLayers : net[l] = "ok" => Rendered(l))


\* C11: any two distinct reports of the store, seeded or submitted, have
\* different ids, also when two submits happen within one clock value.
C11_UniqueIds ==
    \A i, j \in 1..Len(floodReports) :
        i # j => floodReports[i].id # floodReports[j].id


\* The criteria the filter controls currently show.
CurrentChip == CHOOSE c \in filterChipActive : TRUE

MatchesCurrent(r) == Matches(r, CurrentChip, filterDateFrom, filterDateTo)

\* C12: with only the five seeded reports stored, the criteria depth "severe",
\* from 2025-06-14, to 2025-06-15 leave exactly one marker on the floods
\* layer, the one of the report with id 4.
C12_SeededSevere ==
    (/\ floodReports = demoReports
     /\ filterChipActive = {"severe"}
     /\ filterDateFrom = <<2025, 6, 14>>
     /\ filterDateTo = <<2025, 6, 15>>)
    => /\ Len(layers.floods) = 1
       /\ floodReports[layers.floods[1].reportData].id = 4
       /\ layers.floods[1].latlng = [lat |-> 302689, lng |-> 1201234]

C12_Witness ==
    /\ floodReports = demoReports
    /\ filterChipActive = {"severe"}
    /\ filterDateFrom = <<2025, 6, 14>>
    /\ filterDateTo = <<2025, 6, 15>>
    /\ Len(layers.floods) = 1
    /\ formState.location = NoObject

\* C13: the rendered list has exactly one row per stored report, in reverse
\* insertion order, the last appended report first.
C13_ListReversed ==
    /\ Len(reportItems) = Len(floodReports)
    /\ \A k \in 1..Len(reportItems) : reportItems[k] = Len(floodReports) + 1 - k

\* A submitted report heads the list and the first seeded report ends it,
\* while a filter hides markers.
C13_Witness ==
    /\ Len(floodReports) > Len(demoReports)
    /\ reportItems[1] = Len(floodReports)
    /\ Last(reportItems) = 1
    /\ Last(floodReports).photo # null
    /\ Len(layers.floods) < Len(floodReports)

\* C17: every report of the store has a location, a depth, a situation, a
\* date and a time, none of them empty.
C17_ReportsComplete ==
    \A i \in 1..Len(floodReports) :
        LET r == floodReports[i] IN
        /\ r.location.lat \in Int /\ r.location.lng \in Int
        /\ r.depth \in DepthOptions
        /\ r.situation \in SituationOptions
        /\ r.date # <<>>
        /\ r.time # ""

\* A report was submitted with an edited date and an edited time.
C17_Witness ==
    /\ Len(floodReports) > Len(demoReports)
    /\ Last(floodReports).time = "07:45"
    /\ Last(floodReports).date = <<2025, 6, 14>>
    /\ Last(floodReports).depth = "severe"

C19_MarkersOfStore ==
    /\ \A k \in 1..Len(layers.floods) :
          /\ layers.floods[k].reportData \in 1..Len(floodReports)
          /\ layers.floods[k].latlng = floodReports[layers.floods[k].reportData].location
          /\ layers.floods[k].icon = floodReports[layers.floods[k].reportData].depth
    /\ \A k, l \in 1..Len(layers.floods) :
          k # l => layers.floods[k].reportData # layers.floods[l].reportData
    /\ Len(layers.floods) <= Len(floodReports)

\* After a submit and a re-render under the "shallow" chip the layer holds
\* the markers of the seeded and of the submitted shallow report.
C19_Witness ==
    /\ Len(floodReports) = Len(demoReports) + 1
    /\ filterChipActive = {"shallow"}
    /\ Len(layers.floods) = 2
    /\ layers.floods[1].reportData = 3
    /\ layers.floods[2].reportData = Len(floodReports)


\* The layer's rendered features are on the map.
Visible(n) == n \in mapLayers

\* C14: a toggle of a layer's control flips that layer's visibility and
\* leaves every other layer's visibility and every group's contents
\* unchanged (so a second toggle restores the layer with the same features);
\* nothing but a toggle changes a visibility, so what a load, a submit or a
\* filter re-render adds to a hidden group is in the group when it is shown.
C14_ToggleFrame ==
    /\ [][\A n \in LayerNames :
             handleLayerToggle(n) =>
                /\ Visible(n)' <=> ~ Visible(n)
                /\ \A m \in LayerNames \ {n} : Visible(m)' <=> Visible(m)
                /\ layers' = layers
         ]_vars
    /\ [][(\A n \in LayerNames : ~ handleLayerToggle(n)) => UNCHANGED mapLayers]_vars
    /\ [](layerItemActive = mapLayers)

\* Both switched layers are hidden and hold what the loader and a submit,
\* re-rendered under a filter, gave them; the other layers are shown.
C14_Witness ==
    /\ ~ Visible("floods")
    /\ ~ Visible("metro")
    /\ \A n \in LayerNames \ SwitchedLayers : Visible(n)
    /\ Rendered("metro")
    /\ filterChipActive = {"severe"}
    /\ Len(floodReports) > Len(demoReports)
    /\ Len(layers.floods) = 2


\* C15: when photo A and then photo B were selected in the draft and both
\* reads have completed, the draft holds B, the photo selected last, in
\* whatever order the reads completed.
C15_LastSelectedHeld ==
    (/\ chosenFiles = {"A.jpg", "B.jpg"}
     /\ photoInput = "B.jpg"
     /\ pendingReads = {})
    => uploadedPhoto = readAsDataURL("B.jpg")

\* C16: the photo a submit stores in its report is absent or is a photo
\* selected since the previous submit; a read completing after the submit of
\* its draft does not reach a later report.
C16_PhotoOfOwnDraft ==
    [][handleFormSubmit =>
        \/ Last(floodReports').photo = null
        \/ \E f \in chosenFiles : Last(floodReports').photo = readAsDataURL(f)
      ]_vars


MapClick == \E p \in DraftPoints : handleMapClick(p)

DepthSelect == \E d \in DepthOptions : handleDepthSelect(d)

SituationSelect == \E c \in SituationOptions : handleSituationSelect(c)

\* C20: a step that is not a submit never sets a draft field that was set
\* back to empty; a map click changes no draft field but the location, a
\* depth selection none but the depth, a situation selection none but the
\* situation; a date or time edit, a photo selection or read, a filter
\* operation, a layer toggle, a mode toggle or a step of the loader changes no
\* draft field.
C20_DraftFrame ==
    [][/\ ~ handleFormSubmit =>
             /\ formState.location # NoObject => formState'.location # NoObject
             /\ formState.depth # null => formState'.depth # null
             /\ formState.situation # null => formState'.situation # null
       /\ MapClick =>
             /\ formState'.depth = formState.depth
             /\ formState'.situation = formState.situation
       /\ DepthSelect =>
             /\ formState'.location = formState.location
             /\ formState'.situation = formState.situation
       /\ SituationSelect =>
             /\ formState'.location = formState.location
             /\ formState'.depth = formState.depth
       /\ ~ (MapClick \/ DepthSelect \/ SituationSelect \/ handleFormSubmit) =>
             UNCHANGED formState
      ]_vars

\* A complete draft, begun after an earlier submit, has survived a date
\* edit, a photo read, a filter operation, a layer toggle, a mode toggle and
\* the whole loader.
C20_Witness ==
    /\ formState.location # NoObject
    /\ formState.depth # null
    /\ formState.situation # null
    /\ Len(floodReports) > Len(demoReports)
    /\ eventDate = <<>>
    /\ uploadedPhoto # null
    /\ filterChipActive = {"severe"}
    /\ filterDateFrom # <<>>
    /\ ~ Visible("floods")
    /\ modeView.active = {"list"}
    /\ LoadDone


IndexOf(l) == CHOOSE i \in 1..Len(LoadList) : LoadList[i].name = l

\* The loadLayer call of layer l has returned.
Returned(l) == loadPc > IndexOf(l)

\* C21: a static layer group never holds more than its own file's features,
\* once; it holds them once the load of a file the network delivers as
\* parsable data has returned, and stays empty otherwise; a group that was
\* written is never written again; a step of the loader changes at most the
\* group of the layer being loaded, and neither the floods layer, the store,
\* the list nor the draft.
C21_LayerWrittenOnce ==
    /\ [](\A l \in StaticLayers :
            /\ Len(layers[l]) <= 1
            /\ layers[l] # <<>> => (Rendered(l) /\ net[l] = "ok" /\ Returned(l))
            /\ (Returned(l) /\ net[l] = "ok") => Rendered(l))
    /\ [][\A l \in StaticLayers : layers'[l] # layers[l] => layers[l] = <<>>]_vars
    /\ [][(fetchSettled \/ jsonSettled) =>
             /\ \A n \in LayerNames :
                   layers'[n] # layers[n] => n = LoadList[loadPc].name
             /\ UNCHANGED <<floodReports, reportItems>>
             /\ UNCHANGED draftVars
         ]_vars

\* The parks file was answered with an error status; the loader has ended,
\* the five other groups hold their features, and meanwhile a report was
\* submitted, the markers re-rendered and a new draft begun.
C21_Witness ==
    /\ net["parks"] = "http"
    /\ LoadDone
    /\ layers["parks"] = <<>>
    /\ \A l \in StaticLayers \ {"parks"} : Rendered(l)
    /\ Len(floodReports) > Len(demoReports)
    /\ filterChipActive = {"severe"}
    /\ formState.location # NoObject

====
